---- MODULE Spec2Model ----
(***************************************************************************)
(* deep-reach: the recruiting outreach pipeline.                           *)
(*                                                                         *)
(* The pipeline has three cooperating parts:                               *)
(*   - the orchestrator agent and its sub-agents, whose program is the     *)
(*     text of ORCHESTRATOR_PROMPT, COMPANY_FLOW_PROMPT and                *)
(*     CONTACT_PERSONALIZATION_PROMPT (src/src/agents);                    *)
(*   - the human-in-the-loop broker consumeStream inside runPipeline       *)
(*     (src/src/agents/orchestrator.ts);                                   *)
(*   - the send phase sendPendingQueue / sendEmails (src/src/cli/index.ts, *)
(*     gmail service).                                                     *)
(* Files on disk (companies.json, contacts/<slug>.json, drafts.json,       *)
(* contacted.json) are variables; every read and every write of a file by  *)
(* an agent is a step of its own, because the agents use separate          *)
(* read_file / write_file tool calls and nothing serialises them.          *)
(***************************************************************************)
EXTENDS Integers, Sequences, FiniteSets, TLC

\* ------------------------------------------------------------------------
\* Bounds of the model
\* ------------------------------------------------------------------------
MaxRuns == 2
MaxEmails == 2
MaxOutreach == 2
MaxContacts == 2
MaxDrafts == 3
MaxSends == 3
MaxSteps == 405
MaxSetting == 102
MaxApiEmails == 102

\* The profiles of the model: defaultMaxOutreachPerRun companies with one
\* contact each, or one company with defaultContactsPerCompany contacts.
Profiles ==
  {[maxOutreach |-> MaxOutreach, contactsPerCompany |-> 1],
   [maxOutreach |-> 1, contactsPerCompany |-> MaxContacts]}

\* The universe of company domains a web search can surface, in the order
\* the search lists them.
DomainOrder == <<"x.com", "y.com", "z.com">>
Domains == {DomainOrder[i] : i \in 1..Len(DomainOrder)}

\* Contact names the people lookup can return.
Names == {"ann", "bob"}

\* What a run is started with: HUNTER_API_KEY and TAVILY_API_KEY set in
\* process.env or not, and the profile files passing schema validation or not.
Configs ==
  {[hunterKey |-> TRUE, tavilyKey |-> TRUE, profileOk |-> TRUE],
   [hunterKey |-> FALSE, tavilyKey |-> TRUE, profileOk |-> TRUE],
   [hunterKey |-> TRUE, tavilyKey |-> FALSE, profileOk |-> TRUE],
   [hunterKey |-> TRUE, tavilyKey |-> TRUE, profileOk |-> FALSE]}

\* ------------------------------------------------------------------------
\* State
\* ------------------------------------------------------------------------
VARIABLES
  profile,               \* the user's preferences (preferences.json)
  config,                \* process.env keys set, profile files valid
  runId,                 \* number of the current run (0: no run started yet)
  contactedJson,         \* <storage>/contacted.json: sequence of ContactedEntry
  companiesJson,         \* <workspace>/companies.json: sequence of CompanyEntry
  contactsFiles,         \* <workspace>/contacts/<slug>.json, per domain
  draftsJson,            \* <workspace>/drafts.json: sequence of DraftEntry
  agentPc,               \* position of the orchestrator agent in its prompt
  contactedList,         \* the agent's list of contacted domains (Stage 0)
  surfaced,              \* what the last discovery search surfaced
  interrupt,             \* the chunk of the agent's last "updates" stream event
  brokerPc,              \* position of runPipeline / consumeStream
  pendingCompanies,      \* consumeStream: pendingCompanies
  lastApprovedCompanies, \* runPipeline: lastApprovedCompanies
  result,                \* PipelineResult.success: "none", "success", "failed"
  stats,                 \* PipelineResult.stats
  error,                 \* PipelineResult.error
  exitCode,              \* the exit code of the CLI process: "none", "0", "1"
  draftsDisk,            \* how much of the text of draftsJson the file holds:
                         \* "complete", "partial", "empty"
  procs,                 \* run commands working in the same workspace at the
                         \* same time: position, Stage 0 list, company list
  runDirs,               \* the directories runNNNN under runs/ (by number), the
                         \* id generateRunId returned last and whether that
                         \* directory existed already
  graphSteps,            \* steps of the agent graph in the current stream call
  stepCount,             \* runPipeline: stepCount, over all stream calls
  lookup,                \* a people_lookup tool instance, its input and answer
  wpc,                   \* company-flow worker position, per domain
  wsnap,                 \* company-flow worker: companies.json as last read
  wreason,               \* company-flow worker: failure reason it will record
  ppc,                   \* contact-personalization worker position
  psnap,                 \* contact-personalization worker: drafts.json as read
  hist,                  \* history of the run, for stating properties
  sendLog                \* history of the send invocations on drafts.json

fileVars == <<contactedJson, companiesJson, contactsFiles, draftsJson>>
agentVars == <<agentPc, contactedList, surfaced, interrupt>>
brokerVars == <<brokerPc, pendingCompanies, lastApprovedCompanies, result, stats, error,
                exitCode>>
stepVars == <<graphSteps, stepCount>>
workerVars == <<wpc, wsnap, wreason, ppc, psnap>>
vars == <<profile, config, runId, fileVars, agentVars, brokerVars, stepVars, workerVars,
          hist, sendLog, lookup, draftsDisk, procs, runDirs>>

\* The run ids generated in one workspace.
MaxNewRuns == 3

\* generateRunId: the largest number that /^run(\d{4})$/ can match.
FourDigitMax == 9999

\* No run id generated yet; the run directories are not looked at.
NoRunDirs == [dirs |-> {}, n |-> 0, last |-> 0, existed |-> FALSE]

\* The run commands that can overlap in one workspace.
MaxProcs == 2
RunProcs == 1..MaxProcs

\* A run command that has not started.
IdleProc == [pc |-> "idle", contactedList |-> {}, companies |-> <<>>]
NoProcs == [p \in RunProcs |-> IdleProc]

\* ------------------------------------------------------------------------
\* Helpers on sequences
\* ------------------------------------------------------------------------
Range(s) == {s[i] : i \in 1..Len(s)}

Min(a, b) == IF a < b THEN a ELSE b

Max(a, b) == IF a > b THEN a ELSE b

Take(s, n) == SubSeq(s, 1, Min(Len(s), n))

\* Array.prototype.map
MapSeq(s, F(_)) == [i \in 1..Len(s) |-> F(s[i])]

\* The domains of S in the order of the search results
InSearchOrder(S) == SelectSeq(DomainOrder, LAMBDA d : d \in S)

\* ------------------------------------------------------------------------
\* Records
\* ------------------------------------------------------------------------
\* A company entry as Stage 1 saves it: status PENDING, no results yet.
PendingEntry(d) ==
  [domain |-> d, status |-> "PENDING", contactsFound |-> 0,
   draftsGenerated |-> 0, failureReason |-> "none"]

\* The entry of contacted.json that Stage 3 adds for a company.
ContactedEntry(d, r) == [domain |-> d, name |-> d, contactedAt |-> r, runId |-> r]

\* The chunk of an "updates" stream event. No interrupt: tag "none".
NoInterrupt == [tag |-> "none", name |-> "none", args |-> "none", companies |-> <<>>]

ReviewInterrupt(list) ==
  [tag |-> "interrupt", name |-> "review_companies", args |-> "companies",
   companies |-> list]

\* The interrupt of a review_companies call whose arguments have no
\* companies field.
MalformedInterrupt ==
  [tag |-> "interrupt", name |-> "review_companies", args |-> "none",
   companies |-> <<>>]

\* History of a run:
\*   unanswered   interrupts produced and not yet answered by a resume
\*   prompts      prompts shown since the last interrupt was produced
\*   outstanding  resumes sent whose stream segment has not ended
\*   rejected     the companies of the proposals rejected so far
\*   dispatched   how often a company-flow task was issued, per company
\*   lookups      the outcome of people_lookup, per company
\*   thrown       the message of the error raised into the stream, if any
\*   outcome      what the human did at the prompt whose answer is in flight
\*   resume       the Command({resume}) in flight to the agent
\*   search       the answer of the last web_search of the discovery
\*   sendOption   whether the run command was given --send
NoResume == [type |-> "none", message |-> "none"]

NoSearch == [kind |-> "none", text |-> "none"]

HistInit ==
  [unanswered |-> 0, prompts |-> 0, outstanding |-> 0, rejected |-> {},
   dispatched |-> [d \in Domains |-> 0],
   lookups |-> [d \in Domains |-> "none"],
   thrown |-> "none", outcome |-> "none", resume |-> NoResume,
   search |-> NoSearch, sendOption |-> "none"]

\* ------------------------------------------------------------------------
\* The orchestrator agent (ORCHESTRATOR_PROMPT)
\* ------------------------------------------------------------------------
\* STAGE 0: the domains of contacted.json.
Stage0SkipFile(file) == {}

Stage0Domains(file) == {file[i].domain : i \in 1..Len(file)}

\* STAGE 1: the search results without the contacted domains, at most
\* maxOutreach of them.
DiscoverDropContactedOff(found, contacted, maxOutreach) ==
  Take(InSearchOrder(found), maxOutreach)

DiscoverCompanies(found, contacted, maxOutreach) ==
  Take(SelectSeq(InSearchOrder(found), LAMBDA d : d \notin contacted), maxOutreach)

\* STAGE 1.5: where the agent goes after the human's decision.
Stage15ProceedAlways(approved) == "stage2"

Stage15AfterDecision(approved) == IF approved THEN "stage2" ELSE "stage1"

\* STAGE 3: contacted.json with one entry added per SUCCESS company.
Stage3AddEveryCompany(contacted, companies, r) ==
  contacted \o MapSeq(companies, LAMBDA c : ContactedEntry(c.domain, r))

\* STAGE 3 that writes this run's entries in place of the registry.
Stage3WritesOnlyNew(contacted, companies, r) ==
  MapSeq(SelectSeq(companies, LAMBDA c : c.status = "SUCCESS"),
         LAMBDA c : ContactedEntry(c.domain, r))

Stage3Update(contacted, companies, r) ==
  contacted \o
    MapSeq(SelectSeq(companies, LAMBDA c : c.status = "SUCCESS"),
           LAMBDA c : ContactedEntry(c.domain, r))

\* ------------------------------------------------------------------------
\* The broker (runPipeline / consumeStream)
\* ------------------------------------------------------------------------
\* What the human does at the prompt.
PromptOutcomes == {"approve", "cancel", "revise", "revise_empty", "revise_cancel"}

\* promptUserForReview: every outcome but a revise with feedback approves.
PromptAbortRejects(outcome) ==
  IF outcome \in {"revise", "cancel"}
  THEN [approved |-> FALSE, feedback |-> "feedback"]
  ELSE [approved |-> TRUE, feedback |-> "none"]

\* promptUserForReview that takes a Revise without feedback for a rejection.
PromptEmptyFeedbackRejects(outcome) ==
  IF outcome \in {"revise", "revise_empty", "revise_cancel"}
  THEN [approved |-> FALSE, feedback |-> IF outcome = "revise" THEN "feedback" ELSE "none"]
  ELSE [approved |-> TRUE, feedback |-> "none"]

promptUserForReview(outcome) ==
  IF outcome = "revise"
  THEN [approved |-> FALSE, feedback |-> "feedback"]
  ELSE [approved |-> TRUE, feedback |-> "none"]

\* consumeStream, lines 475-477: the decision sent with Command({resume}).
HitlResponse(decision) ==
  IF decision.approved
  THEN [type |-> "approve", message |-> "none"]
  ELSE [type |-> "reject", message |-> decision.feedback]

\* extractInterruptCompanies: the companies of a review_companies interrupt,
\* <<>> (null) for any other chunk.  Its callers treat null and the empty list
\* alike (companies && companies.length > 0).
extractInterruptCompanies(chunk) ==
  IF chunk.tag = "interrupt" /\ chunk.name = "review_companies"
     /\ chunk.args = "companies"
  THEN chunk.companies
  ELSE <<>>

\* gatherPipelineStats: the counts of the run's files; a missing file counts
\* as an empty one.
ZeroStats ==
  [companiesCandidates |-> 0, companiesSelected |-> 0, companiesResearched |-> 0,
   contactsFound |-> 0, contactsVerified |-> 0, draftsGenerated |-> 0]

GatherCountsProcessed(companies, drafts) ==
  [ZeroStats EXCEPT
     !.companiesSelected = Len(companies),
     !.companiesResearched = Len(SelectSeq(companies, LAMBDA c : c.status # "PENDING")),
     !.contactsFound = Len(drafts),
     !.contactsVerified = Len(drafts),
     !.draftsGenerated = Len(drafts)]

gatherPipelineStats(companies, drafts) ==
  [ZeroStats EXCEPT
     !.companiesSelected = Len(companies),
     !.companiesResearched = Len(SelectSeq(companies, LAMBDA c : c.status = "SUCCESS")),
     !.contactsFound = Len(drafts),
     !.contactsVerified = Len(drafts),
     !.draftsGenerated = Len(drafts)]

\* The catch of runPipeline: what it returns for a caught error.
CatchGenericMessage(errorMessage) ==
  [success |-> "failed", stats |-> ZeroStats, error |-> "Pipeline failed"]

CatchResult(errorMessage) ==
  [success |-> "failed", stats |-> ZeroStats, error |-> errorMessage]

\* ------------------------------------------------------------------------
\* The web search (createWebSearchTool)
\* ------------------------------------------------------------------------
\* What the Tavily search can do.
SearchOutcomes == {"results", "empty", "throws"}

\* Lines 35-43: the dynamic import of @langchain/tavily and the search call.
\* The import throws when the package is not installed, the call can throw,
\* answer with nothing, or answer with results.
TavilyCall(packageInstalled, outcome) ==
  IF ~packageInstalled
  THEN [kind |-> "throw", value |-> "Cannot find package"]
  ELSE IF outcome = "throws"
       THEN [kind |-> "throw", value |-> "search failed"]
       ELSE [kind |-> "return", value |-> outcome]

\* The tool body, lines 25-78: what the calling agent gets.
WebSearchRethrows(apiKey, packageInstalled, outcome) ==
  LET call == TavilyCall(packageInstalled, outcome)
  IN  IF ~apiKey
      THEN [kind |-> "return", text |-> "Error: TAVILY_API_KEY environment variable not set"]
      ELSE IF call.kind = "throw"
           THEN [kind |-> "throw", text |-> call.value]
           ELSE IF call.value = "empty"
                THEN [kind |-> "return", text |-> "No results found for this search query."]
                ELSE [kind |-> "return", text |-> "results"]

webSearch(apiKey, packageInstalled, outcome) ==
  LET call == TavilyCall(packageInstalled, outcome)
  IN  IF ~apiKey
      THEN [kind |-> "return", text |-> "Error: TAVILY_API_KEY environment variable not set"]
      ELSE IF call.kind = "throw"
           THEN IF call.value = "Cannot find package"
                THEN [kind |-> "return",
                      text |-> "Error: @langchain/tavily package not installed"]
                ELSE [kind |-> "return", text |-> "Error performing web search"]
           ELSE IF call.value = "empty"
                THEN [kind |-> "return", text |-> "No results found for this search query."]
                ELSE [kind |-> "return", text |-> "results"]

\* ------------------------------------------------------------------------
\* The people lookup (createHunterDomainSearchTool)
\* ------------------------------------------------------------------------
\* The largest limit the Hunter API accepts.
HunterMaxLimit == 100

\* buildTools: const { contactsPerCompany = 10 } = config.  A setting is
\* [set, c]: defaultContactsPerCompany is present in the profile or not.
DefaultContactsPerCompany == 10

buildTools(setting) == IF setting.set THEN setting.c ELSE DefaultContactsPerCompany

HunterLimitNoClamp(contactsLimit) == contactsLimit

HunterLimit(contactsLimit) == Min(Max(contactsLimit, 1), HunterMaxLimit)

\* The tool's answer for an API response: it throws when the response is not
\* ok, reports success=false for zero people and the people otherwise.
HunterDomainSearch(responseOk, emails, limit) ==
  LET people == Take(emails, limit)
  IN  IF ~responseOk
      THEN [kind |-> "throw", success |-> FALSE, people |-> <<>>]
      ELSE IF Len(people) = 0
           THEN [kind |-> "return", success |-> FALSE, people |-> <<>>]
           ELSE [kind |-> "return", success |-> TRUE, people |-> people]

\* The message of the error people_lookup throws: getHunterKey's when the
\* key is missing, the one of line 128 for a response that is not ok.
HunterErrorMessage(cfg) ==
  IF cfg.hunterKey THEN "Hunter domain search failed"
  ELSE "HUNTER_API_KEY environment variable not set"

\* The e-mail lists the API can answer with.
EmailLists == UNION {[1..n -> Names] : n \in 0..MaxEmails}

\* ------------------------------------------------------------------------
\* The company-flow and contact-personalization workers
\* ------------------------------------------------------------------------
\* "<company_slug>_<contact_name_slug>"
DraftId(d, name) == <<d, name>>

\* STEP 3 of CONTACT_PERSONALIZATION_PROMPT: the new draft entry.
NewDraft(d, name) ==
  [id |-> DraftId(d, name), company |-> d, contact |-> name, valid |-> TRUE,
   status |-> "draft", sentAt |-> 0, messageId |-> 0, error |-> "none"]

\* CRITICAL RULE of COMPANY_FLOW_PROMPT: the file as read, with the company's
\* entry set to FAILED and its failureReason.
MarkFailed(file, d, reason) ==
  MapSeq(file, LAMBDA c : IF c.domain = d
                          THEN [c EXCEPT !.status = "FAILED", !.failureReason = reason]
                          ELSE c)

\* STEP 4 of COMPANY_FLOW_PROMPT: the file as read, with the company's entry
\* set to SUCCESS and its counts.
MarkSuccess(file, d, n) ==
  MapSeq(file, LAMBDA c : IF c.domain = d
                          THEN [c EXCEPT !.status = "SUCCESS", !.contactsFound = n,
                                         !.draftsGenerated = n]
                          ELSE c)

NoWorkers == [d \in Domains |-> "none"]
NoSnapshots == [d \in Domains |-> <<>>]
NoReasons == [d \in Domains |-> "none"]
NoPersonWorkers == [d \in Domains |-> [i \in 1..MaxEmails |-> "none"]]
NoPersonSnapshots == [d \in Domains |-> [i \in 1..MaxEmails |-> <<>>]]
NoContactsFiles == [d \in Domains |-> <<>>]

\* No people_lookup instance under test.
NoLookup ==
  [set |-> FALSE, c |-> 0, emails |-> 0, called |-> FALSE, limit |-> 0,
   kind |-> "none", success |-> FALSE, people |-> 0]

\* The pipeline is running: runPipeline has not returned.
Running == brokerPc \in {"main", "resume"} /\ result = "none"

\* Stage 3 without the wait for the company-flow tasks.
AllTasksNotAwaited == TRUE

\* Every dispatched company-flow task has completed.
AllTasksComplete == \A d \in Domains : wpc[d] \in {"none", "done"}

\* History of the send phase: the number of send invocations, how often the
\* draft at each position of drafts.json was delivered to the transport, and
\* the last invocation: the answer to the confirmation, the credentials, the
\* number of pending drafts it found, the messages it handed to sendEmails
\* and the results it got back.
NoInvocation ==
  [confirmed |-> FALSE, credentials |-> FALSE, pending |-> 0,
   messages |-> <<>>, results |-> <<>>]

SendLogInit ==
  [n |-> 0, delivered |-> [k \in 1..MaxDrafts |-> 0], last |-> NoInvocation]

\* ------------------------------------------------------------------------
\* Initial state: no run yet; the registry is empty or holds x.com from an
\* earlier use of the workspace.
\* ------------------------------------------------------------------------
Init ==
  /\ profile \in Profiles
  /\ config \in Configs
  /\ stats = ZeroStats
  /\ error = "none"
  /\ exitCode = "none"
  /\ draftsDisk = "complete"
  /\ procs = NoProcs
  /\ runDirs = NoRunDirs
  /\ graphSteps = 0
  /\ stepCount = 0
  /\ lookup = NoLookup
  /\ runId = 0
  /\ contactedJson \in {<<>>, <<ContactedEntry("x.com", 0)>>}
  /\ companiesJson = <<>>
  /\ contactsFiles = NoContactsFiles
  /\ draftsJson = <<>>
  /\ agentPc = "idle"
  /\ contactedList = {}
  /\ surfaced = {}
  /\ interrupt = NoInterrupt
  /\ brokerPc = "idle"
  /\ pendingCompanies = <<>>
  /\ lastApprovedCompanies = <<>>
  /\ result = "none"
  /\ wpc = NoWorkers
  /\ wsnap = NoSnapshots
  /\ wreason = NoReasons
  /\ ppc = NoPersonWorkers
  /\ psnap = NoPersonSnapshots
  /\ hist = HistInit
  /\ sendLog = SendLogInit

\* ------------------------------------------------------------------------
\* runColdEmailPipeline / runPipeline: a new run directory, a new agent
\* thread, and the main stream is opened.
\* ------------------------------------------------------------------------
StartRun ==
  /\ brokerPc \in {"idle", "exited"}
  /\ config.profileOk
  /\ runId < MaxRuns
  /\ runId' = runId + 1
  /\ stats' = ZeroStats
  /\ error' = "none"
  /\ companiesJson' = <<>>
  /\ contactsFiles' = NoContactsFiles
  /\ draftsJson' = <<>>
  /\ agentPc' = "stage0"
  /\ contactedList' = {}
  /\ surfaced' = {}
  /\ interrupt' = NoInterrupt
  /\ brokerPc' = "main"
  /\ pendingCompanies' = <<>>
  /\ lastApprovedCompanies' = <<>>
  /\ result' = "none"
  /\ wpc' = NoWorkers
  /\ wsnap' = NoSnapshots
  /\ wreason' = NoReasons
  /\ ppc' = NoPersonWorkers
  /\ psnap' = NoPersonSnapshots
  /\ hist' = HistInit
  /\ exitCode' = "none"
  /\ sendLog' = SendLogInit
  /\ UNCHANGED <<profile, config, runDirs, draftsDisk, procs, stepVars, lookup, contactedJson>>

\* runColdEmailPipeline, lines 211-248: the profile files do not pass the
\* schema; throwValidationError ends the command before runPipeline is called.
ProfileRejected ==
  /\ brokerPc = "idle"
  /\ ~config.profileOk
  /\ brokerPc' = "config_error"
  /\ exitCode' = "1"
  /\ UNCHANGED <<profile, config, runDirs, draftsDisk, procs, sendLog, stepVars, lookup, runId, fileVars, agentVars,
                 pendingCompanies, lastApprovedCompanies, result, stats, error,
                 workerVars, hist>>

\* STAGE 0: read contacted.json and extract the domains.
Stage0LoadContacted ==
  /\ Running
  /\ agentPc = "stage0"
  /\ contactedList' = Stage0Domains(contactedJson)
  /\ agentPc' = "stage1"
  /\ UNCHANGED <<profile, config, runDirs, draftsDisk, procs, sendLog, stepVars, lookup, runId, fileVars, surfaced, interrupt, brokerVars,
                 workerVars, hist>>

\* STAGE 1 (and again after a rejection): search, exclude the contacted
\* domains, save the list to companies.json.
Stage1Discover(found, packageInstalled, outcome) ==
  /\ Running
  /\ agentPc = "stage1"
  /\ LET answer == webSearch(config.tavilyKey, packageInstalled, outcome)
     IN  /\ (answer.kind = "return" /\ answer.text = "results") \/ found = {}
         /\ hist' = [hist EXCEPT !.outcome = "none", !.resume = NoResume,
                                 !.search = answer]
  /\ surfaced' = found
  /\ companiesJson' =
       MapSeq(DiscoverCompanies(found, contactedList, profile.maxOutreach),
              PendingEntry)
  /\ agentPc' = "review"
  /\ UNCHANGED <<profile, config, runDirs, draftsDisk, procs, sendLog, stepVars, lookup, runId, contactedJson, contactsFiles, draftsJson, contactedList,
                 interrupt, brokerVars, workerVars>>

\* STAGE 1.5: call review_companies with the full list.  interruptOn pauses
\* the agent before the tool runs: the stream yields the interrupt and ends.
Stage15CallReview ==
  /\ Running
  /\ agentPc = "review"
  /\ interrupt' = ReviewInterrupt(MapSeq(companiesJson, LAMBDA c : c.domain))
  /\ agentPc' = "interrupted"
  /\ hist' = [hist EXCEPT !.unanswered = @ + 1,
                          !.prompts = 0,
                          !.search = NoSearch,
                          !.outstanding = IF brokerPc = "resume" THEN @ - 1 ELSE @]
  /\ UNCHANGED <<profile, config, runDirs, draftsDisk, procs, sendLog, stepVars, lookup, runId, fileVars, contactedList, surfaced,
                 brokerVars, workerVars>>

\* STAGE 1.5 with a tool call the model got wrong: review_companies without
\* the companies argument.  interruptOn pauses the agent all the same.
Stage15CallMalformed ==
  /\ Running
  /\ agentPc = "review"
  /\ interrupt' = MalformedInterrupt
  /\ agentPc' = "interrupted"
  /\ hist' = [hist EXCEPT !.unanswered = @ + 1,
                          !.prompts = 0,
                          !.search = NoSearch,
                          !.outstanding = IF brokerPc = "resume" THEN @ - 1 ELSE @]
  /\ UNCHANGED <<profile, config, runDirs, draftsDisk, procs, sendLog, stepVars, lookup, runId, fileVars, contactedList, surfaced,
                 brokerVars, workerVars>>

\* consumeStream, lines 463-470 and 519-526: the interrupt event reaches the
\* loop over the main or the resumed stream.  A non-empty list starts a
\* review; with an empty list the loop goes on, the stream has ended, the
\* review loop is left and runPipeline returns success.
BrokerInterruptEvent ==
  /\ Running
  /\ agentPc = "interrupted"
  /\ interrupt.tag = "interrupt"
  /\ LET companies == extractInterruptCompanies(interrupt)
     IN  IF Len(companies) > 0
         THEN /\ pendingCompanies' = companies
              /\ brokerPc' = "prompt"
              /\ UNCHANGED <<result, stats>>
         ELSE /\ pendingCompanies' = <<>>
              /\ brokerPc' = "returned"
              /\ result' = "success"
              /\ stats' = gatherPipelineStats(companiesJson, draftsJson)
  /\ interrupt' = [interrupt EXCEPT !.tag = "consumed"]
  /\ UNCHANGED <<exitCode, profile, config, runDirs, draftsDisk, procs, sendLog, stepVars, lookup, runId, fileVars, agentPc, contactedList, surfaced,
                 lastApprovedCompanies, error, workerVars, hist>>

\* consumeStream, lines 473-505: prompt the human, build the decision, send
\* it with Command({resume}).  On approve the review_companies tool runs and
\* tells the agent to go to Stage 2; on reject the agent searches again.
BrokerReviewAndResume(outcome) ==
  /\ brokerPc = "prompt"
  /\ LET decision == promptUserForReview(outcome)
     IN  /\ lastApprovedCompanies' =
              IF decision.approved THEN pendingCompanies ELSE lastApprovedCompanies
         /\ agentPc' = Stage15AfterDecision(HitlResponse(decision).type = "approve")
         /\ hist' = [hist EXCEPT
                       !.outcome = outcome,
                       !.resume = HitlResponse(decision),
                       !.prompts = @ + 1,
                       !.unanswered = @ - 1,
                       !.outstanding = @ + 1,
                       !.rejected = IF decision.approved
                                    THEN @ ELSE @ \cup Range(pendingCompanies)]
  /\ pendingCompanies' = <<>>
  /\ brokerPc' = "resume"
  /\ UNCHANGED <<exitCode, profile, config, runDirs, draftsDisk, procs, sendLog, stepVars, lookup, runId, fileVars, contactedList, surfaced, interrupt, result,
                 stats, error, workerVars>>

\* STAGE 2: one company-flow task per approved company (approved_companies of
\* the review_companies result), all issued together.
ApprovedCompanies == Range(interrupt.companies)

Stage2DispatchRejectedToo == ApprovedCompanies \cup hist.rejected

Stage2Companies == ApprovedCompanies

Stage2Dispatch ==
  /\ Running
  /\ agentPc = "stage2"
  /\ wpc' = [d \in Domains |-> IF d \in Stage2Companies THEN "research" ELSE wpc[d]]
  /\ hist' = [hist EXCEPT
                !.outcome = "none", !.resume = NoResume,
                !.dispatched =
                  [d \in Domains |-> IF d \in Stage2Companies THEN @[d] + 1 ELSE @[d]]]
  /\ agentPc' = "processing"
  /\ surfaced' = {}
  /\ UNCHANGED <<profile, config, runDirs, draftsDisk, procs, sendLog, stepVars, lookup, runId, fileVars, contactedList, interrupt,
                 brokerVars, wsnap, wreason, ppc, psnap>>

\* STAGE 3: after all company-flow tasks complete, add the SUCCESS companies
\* of companies.json to contacted.json.
Stage3UpdateContacted ==
  /\ Running
  /\ agentPc = "processing"
  /\ AllTasksComplete
  /\ contactedJson' = Stage3Update(contactedJson, companiesJson, runId)
  /\ agentPc' = "finished"
  /\ UNCHANGED <<profile, config, runDirs, draftsDisk, procs, sendLog, stepVars, lookup, runId, companiesJson, contactsFiles, draftsJson, contactedList,
                 surfaced, interrupt, brokerVars, workerVars, hist>>

\* The review loop, line 471: while (pendingCompanies &&
\* pendingCompanies.length > 0).  A loop that does not look at the list goes
\* on prompting.
ReviewLoopNeverExits(pending) == FALSE

ReviewLoopExits(pending) == Len(pending) = 0

\* consumeStream returns when the resumed stream ends without a new
\* interrupt; runPipeline gathers the statistics and returns success.
BrokerStreamEnd ==
  /\ Running
  /\ agentPc = "finished"
  /\ ReviewLoopExits(pendingCompanies)
  /\ brokerPc' = "returned"
  /\ result' = "success"
  /\ stats' = gatherPipelineStats(companiesJson, draftsJson)
  /\ hist' = [hist EXCEPT !.outstanding = IF brokerPc = "resume" THEN @ - 1 ELSE @]
  /\ UNCHANGED <<exitCode, profile, config, runDirs, draftsDisk, procs, sendLog, stepVars, lookup, runId, fileVars, agentVars, pendingCompanies,
                 lastApprovedCompanies, error, workerVars>>

\* ------------------------------------------------------------------------
\* company-flow (COMPANY_FLOW_PROMPT), one worker per dispatched company
\* ------------------------------------------------------------------------
\* STEP 1: one web search and the company's entry is found; Stage 1 has set
\* its description already, so nothing is written and it stays PENDING.
CompanyResearch(d) ==
  /\ Running
  /\ wpc[d] = "research"
  /\ wpc' = [wpc EXCEPT ![d] = "lookup"]
  /\ UNCHANGED <<profile, config, runDirs, draftsDisk, procs, sendLog, stepVars, lookup, runId, fileVars, agentVars, brokerVars, wsnap, wreason, ppc,
                 psnap, hist>>

\* STEP 2, people_lookup reports success=false: follow the CRITICAL RULE.
LookupNoContacts(d) ==
  /\ Running
  /\ wpc[d] = "lookup"
  /\ config.hunterKey
  /\ \E emails \in EmailLists :
       LET r == HunterDomainSearch(TRUE, emails, HunterLimit(profile.contactsPerCompany))
       IN  /\ r.kind = "return"
           /\ ~r.success
  /\ wpc' = [wpc EXCEPT ![d] = "failRead"]
  /\ wreason' = [wreason EXCEPT ![d] = "No contacts found"]
  /\ hist' = [hist EXCEPT !.lookups[d] = "zero"]
  /\ UNCHANGED <<profile, config, runDirs, draftsDisk, procs, sendLog, stepVars, lookup, runId, fileVars, agentVars, brokerVars, wsnap, ppc, psnap>>

\* STEP 2, people_lookup reports success=true: save the first 10 people to
\* contacts/<slug>.json; STEP 3: one contact-personalization task per contact,
\* all issued together.
LookupFound(d, emails) ==
  /\ Running
  /\ wpc[d] = "lookup"
  /\ config.hunterKey
  /\ LET r == HunterDomainSearch(TRUE, emails, HunterLimit(profile.contactsPerCompany))
         contacts == Take(r.people, 10)
     IN  /\ r.kind = "return"
         /\ r.success
         /\ contactsFiles' = [contactsFiles EXCEPT ![d] = contacts]
         /\ ppc' = [ppc EXCEPT ![d] =
                      [i \in 1..MaxEmails |->
                         IF i <= Len(contacts) THEN "read" ELSE "none"]]
  /\ wpc' = [wpc EXCEPT ![d] = "waiting"]
  /\ hist' = [hist EXCEPT !.lookups[d] = "found"]
  /\ UNCHANGED <<profile, config, runDirs, draftsDisk, procs, sendLog, stepVars, lookup, runId, contactedJson, companiesJson, draftsJson, agentVars,
                 brokerVars, wsnap, wreason, psnap>>

\* STEP 2, the Hunter API answers with an error and people_lookup throws.
\* The agent framework either hands the error text to the worker as the
\* tool's result, or lets it propagate.  The prompt has no rule for an error
\* text: the worker records a failure (with the reason of the CRITICAL RULE
\* or with the error text) or ends without recording anything.
LookupErrorAbsorbed(d, reaction) ==
  /\ Running
  /\ wpc[d] = "lookup"
  /\ HunterDomainSearch(FALSE, <<>>, HunterLimit(profile.contactsPerCompany)).kind = "throw"
  /\ wpc' = [wpc EXCEPT ![d] = IF reaction = "stop" THEN "done" ELSE "failRead"]
  /\ wreason' = [wreason EXCEPT ![d] = reaction]
  /\ hist' = [hist EXCEPT !.lookups[d] = "error"]
  /\ UNCHANGED <<profile, config, runDirs, draftsDisk, procs, sendLog, stepVars, lookup, runId, fileVars, agentVars, brokerVars, wsnap, ppc, psnap>>

\* The error propagates through the task tool and the stream to the catch
\* of runPipeline (lines 601-628): success=false; the CLI exits.
LookupErrorPropagates(d) ==
  /\ Running
  /\ wpc[d] = "lookup"
  /\ HunterDomainSearch(FALSE, <<>>, HunterLimit(profile.contactsPerCompany)).kind = "throw"
  /\ LET caught == CatchResult(HunterErrorMessage(config))
     IN  /\ result' = caught.success
         /\ stats' = caught.stats
         /\ error' = caught.error
  /\ brokerPc' = "returned"
  /\ hist' = [hist EXCEPT !.lookups[d] = "error", !.outstanding = @ - 1,
                          !.thrown = HunterErrorMessage(config)]
  /\ UNCHANGED <<exitCode, profile, config, runDirs, draftsDisk, procs, sendLog, stepVars, lookup, runId, fileVars, agentVars, pendingCompanies,
                 lastApprovedCompanies, workerVars>>

\* CRITICAL RULE, step 1: read companies.json ...
CompanyFailRead(d) ==
  /\ Running
  /\ wpc[d] = "failRead"
  /\ wsnap' = [wsnap EXCEPT ![d] = companiesJson]
  /\ wpc' = [wpc EXCEPT ![d] = "failWrite"]
  /\ UNCHANGED <<profile, config, runDirs, draftsDisk, procs, sendLog, stepVars, lookup, runId, fileVars, agentVars, brokerVars, wreason, ppc, psnap, hist>>

\* ... and write it back with the entry set to FAILED; then stop.
CompanyFailWrite(d) ==
  /\ Running
  /\ wpc[d] = "failWrite"
  /\ companiesJson' = MarkFailed(wsnap[d], d, wreason[d])
  /\ wpc' = [wpc EXCEPT ![d] = "done"]
  /\ wsnap' = [wsnap EXCEPT ![d] = <<>>]
  /\ UNCHANGED <<profile, config, runDirs, draftsDisk, procs, sendLog, stepVars, lookup, runId, contactedJson, contactsFiles, draftsJson, agentVars,
                 brokerVars, wreason, ppc, psnap, hist>>

\* STEP 4, after all contact-personalization tasks complete: read
\* companies.json ...
CompanySuccessRead(d) ==
  /\ Running
  /\ wpc[d] = "waiting"
  /\ \A i \in 1..MaxEmails : ppc[d][i] \in {"none", "done"}
  /\ wsnap' = [wsnap EXCEPT ![d] = companiesJson]
  /\ wpc' = [wpc EXCEPT ![d] = "succWrite"]
  /\ UNCHANGED <<profile, config, runDirs, draftsDisk, procs, sendLog, stepVars, lookup, runId, fileVars, agentVars, brokerVars, wreason, ppc, psnap, hist>>

\* ... and write it back with the entry set to SUCCESS and its counts.
CompanySuccessWrite(d) ==
  /\ Running
  /\ wpc[d] = "succWrite"
  /\ companiesJson' = MarkSuccess(wsnap[d], d, Len(contactsFiles[d]))
  /\ wpc' = [wpc EXCEPT ![d] = "done"]
  /\ wsnap' = [wsnap EXCEPT ![d] = <<>>]
  /\ UNCHANGED <<profile, config, runDirs, draftsDisk, procs, sendLog, stepVars, lookup, runId, contactedJson, contactsFiles, draftsJson, agentVars,
                 brokerVars, wreason, ppc, psnap, hist>>

\* ------------------------------------------------------------------------
\* contact-personalization (CONTACT_PERSONALIZATION_PROMPT), one worker per
\* contact
\* ------------------------------------------------------------------------
\* STEPS 0-2 and STEP 3.1: research, draft, read drafts.json ...
PersonReadDrafts(d, i) ==
  /\ Running
  /\ ppc[d][i] = "read"
  /\ psnap' = [psnap EXCEPT ![d][i] = draftsJson]
  /\ ppc' = [ppc EXCEPT ![d][i] = "write"]
  /\ UNCHANGED <<profile, config, runDirs, draftsDisk, procs, sendLog, stepVars, lookup, runId, fileVars, agentVars, brokerVars, wpc, wsnap, wreason, hist>>

\* STEP 3.2-3.4: append the new draft and write the array back.
PersonWriteDrafts(d, i) ==
  /\ Running
  /\ ppc[d][i] = "write"
  /\ draftsJson' = Append(psnap[d][i], NewDraft(d, contactsFiles[d][i]))
  /\ ppc' = [ppc EXCEPT ![d][i] = "done"]
  /\ psnap' = [psnap EXCEPT ![d][i] = <<>>]
  /\ UNCHANGED <<profile, config, runDirs, draftsDisk, procs, sendLog, stepVars, lookup, runId, contactedJson, companiesJson, contactsFiles, agentVars,
                 brokerVars, wpc, wsnap, wreason, hist>>

\* ------------------------------------------------------------------------
\* The pipeline
\* ------------------------------------------------------------------------
ErrorReactions == {"No contacts found", "Hunter domain search failed", "stop"}


\* ------------------------------------------------------------------------
\* The send phase (sendPendingQueue, sendEmails)
\* ------------------------------------------------------------------------
\* drafts.filter(d => d.status === "draft"), as positions of drafts.json
PendingEveryDraft(drafts) == [k \in 1..Len(drafts) |-> k]

PendingAlsoFailed(drafts) ==
  SelectSeq([k \in 1..Len(drafts) |-> k], LAMBDA k : drafts[k].status # "sent")

PendingDrafts(drafts) ==
  SelectSeq([k \in 1..Len(drafts) |-> k], LAMBDA k : drafts[k].status = "draft")

\* The loop of lines 539-571: one message per pending draft that has an
\* e-mail address, a subject and a body; the others are skipped.  src is the
\* position of the draft the message was built from.
BuildMessages(drafts, pending) ==
  MapSeq(SelectSeq(pending, LAMBDA k : drafts[k].valid),
         LAMBDA k : [to |-> drafts[k].contact, customId |-> drafts[k].id, src |-> k])

\* sendEmails: the loop of lines 82-132 sends the messages one at a time;
\* every pass pushes one result, in the try for a delivery and in the catch
\* for a failure, and goes on to the next message.  delivers[i] tells whether
\* the transport accepts the i-th message; the messageId is the transport's.
SendResult(message, delivered) ==
  IF delivered
  THEN [success |-> TRUE, messageId |-> message.src, email |-> message.to,
        error |-> "none"]
  ELSE [success |-> FALSE, messageId |-> 0, email |-> message.to,
        error |-> "smtp error"]

RECURSIVE SendLoopStopsAtFailure(_, _, _, _)
SendLoopStopsAtFailure(messages, delivers, i, results) ==
  IF i > Len(messages) \/ (i > 1 /\ ~delivers[i - 1])
  THEN results
  ELSE SendLoopStopsAtFailure(messages, delivers, i + 1,
                              Append(results, SendResult(messages[i], delivers[i])))

RECURSIVE SendLoop(_, _, _, _)
SendLoop(messages, delivers, i, results) ==
  IF i > Len(messages)
  THEN results
  ELSE SendLoop(messages, delivers, i + 1,
                Append(results, SendResult(messages[i], delivers[i])))

sendEmails(messages, delivers) ==
  IF Len(messages) = 0 THEN <<>> ELSE SendLoop(messages, delivers, 1, <<>>)

\* pendingDrafts.findIndex(pd => pd.id === draft.id): 0 stands for -1.
PendingIndex(drafts, pending, k) ==
  LET hits == {j \in 1..Len(pending) : drafts[pending[j]].id = drafts[k].id}
  IN  IF hits = {} THEN 0 ELSE CHOOSE j \in hits : \A h \in hits : j <= h

\* results[pendingIndex] is undefined for some draft: result.success throws.
UpdateThrows(drafts, pending, results) ==
  \E k \in 1..Len(drafts) : PendingIndex(drafts, pending, k) > Len(results)

\* drafts.map of lines 605-615
UpdatedDrafts(drafts, pending, results, timestamp) ==
  [k \in 1..Len(drafts) |->
     LET pendingIndex == PendingIndex(drafts, pending, k)
     IN  IF pendingIndex = 0 THEN drafts[k]
         ELSE IF results[pendingIndex].success
              THEN [drafts[k] EXCEPT !.status = "sent", !.sentAt = timestamp,
                                     !.messageId = results[pendingIndex].messageId]
              ELSE [drafts[k] EXCEPT !.status = "failed",
                                     !.error = results[pendingIndex].error]]

\* One invocation of sendPendingQueue on the run's drafts.json.
\*   confirmed    the answer to "Send n emails?" (TRUE with --yes)
\*   credentials  the Gmail credentials are set (getGmailConfig)
\*   delivers     the transport's answer per message
SendPendingEffect(confirmed, credentials, delivers) ==
  /\ LET pending == PendingDrafts(draftsJson)
         messages == BuildMessages(draftsJson, pending)
         results == sendEmails(messages, delivers)
         sending == /\ Len(draftsJson) > 0
                    /\ Len(pending) > 0
                    /\ Len(messages) > 0
                    /\ confirmed
                    /\ credentials
     IN  /\ sendLog' =
              [n |-> sendLog.n + 1,
               last |-> [confirmed |-> confirmed, credentials |-> credentials,
                         pending |-> Len(pending),
                         messages |-> IF sending THEN messages ELSE <<>>,
                         results |-> IF sending THEN results ELSE <<>>],
               delivered |->
                 [k \in 1..MaxDrafts |->
                    IF sending /\ \E i \in 1..Len(results) :
                                    messages[i].src = k /\ results[i].success
                    THEN sendLog.delivered[k] + 1
                    ELSE sendLog.delivered[k]]]
         /\ draftsJson' =
              IF sending /\ ~UpdateThrows(draftsJson, pending, results)
              THEN UpdatedDrafts(draftsJson, pending, results, sendLog.n + 1)
              ELSE draftsJson

\* sendPendingQueue throws (lines 629-634): sendEmails threw for missing
\* credentials, or the update of the drafts read a result that is not there.
SendPendingThrows(confirmed, credentials, delivers) ==
  LET pending == PendingDrafts(draftsJson)
      messages == BuildMessages(draftsJson, pending)
      results == sendEmails(messages, delivers)
  IN  /\ Len(draftsJson) > 0 /\ Len(pending) > 0 /\ Len(messages) > 0
      /\ confirmed
      /\ ~credentials \/ UpdateThrows(draftsJson, pending, results)

\* The send command on a run's drafts.json.
sendPendingQueue(confirmed, credentials, delivers) ==
  /\ sendLog.n < MaxSends
  /\ SendPendingEffect(confirmed, credentials, delivers)
  /\ UNCHANGED <<profile, config, runDirs, draftsDisk, procs, runId, contactedJson, companiesJson, contactsFiles,
                 agentVars, brokerVars, stepVars, workerVars, hist, lookup>>

\* ------------------------------------------------------------------------
\* runColdEmailPipeline after runPipeline has returned (lines 393-409), and
\* the action of the run command (lines 124-132).
\* ------------------------------------------------------------------------
AfterPipelineSendsAnyway(success, send) ==
  IF send THEN "send" ELSE IF success = "success" THEN "exit0" ELSE "exit1"

AfterPipeline(success, send) ==
  IF success = "success"
  THEN IF send THEN "send" ELSE "exit0"
  ELSE "exit1"

CliAfterPipeline(send) ==
  /\ brokerPc = "returned"
  /\ LET next == AfterPipeline(result, send)
     IN  /\ brokerPc' = IF next = "send" THEN "sending" ELSE "exited"
         /\ exitCode' = IF next = "send" THEN "none"
                        ELSE IF next = "exit0" THEN "0" ELSE "1"
  /\ hist' = [hist EXCEPT !.sendOption = IF send THEN "yes" ELSE "no"]
  /\ UNCHANGED <<profile, config, runDirs, draftsDisk, procs, runId, fileVars, agentVars, pendingCompanies,
                 lastApprovedCompanies, result, stats, error, stepVars, workerVars,
                 sendLog, lookup>>

\* run --send: sendPendingQueue on the run's drafts.json, then the process
\* ends; a throw of sendPendingQueue reaches the catch of the command.
CliSendPhase(confirmed, credentials, delivers) ==
  /\ brokerPc = "sending"
  /\ SendPendingEffect(confirmed, credentials, delivers)
  /\ brokerPc' = "exited"
  /\ exitCode' = IF SendPendingThrows(confirmed, credentials, delivers) THEN "1" ELSE "0"
  /\ UNCHANGED <<profile, config, runDirs, draftsDisk, procs, runId, contactedJson, companiesJson, contactsFiles,
                 agentVars, pendingCompanies, lastApprovedCompanies, result, stats,
                 error, stepVars, workerVars, hist, lookup>>

Next ==
  \/ StartRun
  \/ ProfileRejected
  \/ Stage0LoadContacted
  \/ \E found \in SUBSET Domains : \E packageInstalled \in BOOLEAN :
       \E outcome \in SearchOutcomes : Stage1Discover(found, packageInstalled, outcome)
  \/ Stage15CallReview
  \/ Stage15CallMalformed
  \/ BrokerInterruptEvent
  \/ \E outcome \in PromptOutcomes : BrokerReviewAndResume(outcome)
  \/ Stage2Dispatch
  \/ Stage3UpdateContacted
  \/ BrokerStreamEnd
  \/ \E d \in Domains : CompanyResearch(d)
  \/ \E d \in Domains : LookupNoContacts(d)
  \/ \E d \in Domains : \E emails \in EmailLists : LookupFound(d, emails)
  \/ \E d \in Domains : \E reaction \in ErrorReactions : LookupErrorAbsorbed(d, reaction)
  \/ \E d \in Domains : LookupErrorPropagates(d)
  \/ \E d \in Domains : CompanyFailRead(d)
  \/ \E d \in Domains : CompanyFailWrite(d)
  \/ \E d \in Domains : CompanySuccessRead(d)
  \/ \E d \in Domains : CompanySuccessWrite(d)
  \/ \E d \in Domains : \E i \in 1..MaxEmails : PersonReadDrafts(d, i)
  \/ \E d \in Domains : \E i \in 1..MaxEmails : PersonWriteDrafts(d, i)
  \/ \E send \in BOOLEAN : CliAfterPipeline(send)
  \/ \E delivers \in [1..Len(draftsJson) -> BOOLEAN] :
       CliSendPhase(TRUE, TRUE, delivers)
  \/ CliSendPhase(FALSE, TRUE, [k \in 1..Len(draftsJson) |-> TRUE])
  \/ CliSendPhase(TRUE, FALSE, [k \in 1..Len(draftsJson) |-> TRUE])

Spec == Init /\ [][Next]_vars

\* The steps of the agent, its workers and the broker within a run: every
\* stream segment is finite, so one of them is taken while one is possible.
PipelineStep ==
  \/ Stage0LoadContacted
  \/ \E found \in SUBSET Domains : \E packageInstalled \in BOOLEAN :
       \E outcome \in SearchOutcomes : Stage1Discover(found, packageInstalled, outcome)
  \/ Stage15CallReview
  \/ Stage15CallMalformed
  \/ BrokerInterruptEvent
  \/ \E outcome \in PromptOutcomes : BrokerReviewAndResume(outcome)
  \/ Stage2Dispatch
  \/ Stage3UpdateContacted
  \/ BrokerStreamEnd
  \/ \E d \in Domains : CompanyResearch(d)
  \/ \E d \in Domains : LookupNoContacts(d)
  \/ \E d \in Domains : \E emails \in EmailLists : LookupFound(d, emails)
  \/ \E d \in Domains : \E reaction \in ErrorReactions : LookupErrorAbsorbed(d, reaction)
  \/ \E d \in Domains : LookupErrorPropagates(d)
  \/ \E d \in Domains : CompanyFailRead(d)
  \/ \E d \in Domains : CompanyFailWrite(d)
  \/ \E d \in Domains : CompanySuccessRead(d)
  \/ \E d \in Domains : CompanySuccessWrite(d)
  \/ \E d \in Domains : \E i \in 1..MaxEmails : PersonReadDrafts(d, i)
  \/ \E d \in Domains : \E i \in 1..MaxEmails : PersonWriteDrafts(d, i)

\* The human answers a prompt with anything but a Revise with feedback.
HumanApproves ==
  \E outcome \in PromptOutcomes \ {"revise"} : BrokerReviewAndResume(outcome)

\* Runs in which every stream segment ends and the human, prompted again and
\* again, approves at some prompt.
SpecLive ==
  Init /\ [][Next]_vars /\ WF_vars(PipelineStep) /\ SF_vars(HumanApproves)


\* The drafts.json files a run can leave: every entry has status draft; two
\* contacts of a company may have the same name, hence the same id; an
\* entry may lack an e-mail address, a subject or a body.
SendIds == {DraftId("x.com", name) : name \in Names}

FreshDrafts ==
  {[NewDraft(id[1], id[2]) EXCEPT !.valid = v] : id \in SendIds, v \in BOOLEAN}

InitSend ==
  /\ profile \in Profiles
  /\ config \in {cfg \in Configs : cfg.hunterKey /\ cfg.tavilyKey /\ cfg.profileOk}
  /\ stats = ZeroStats
  /\ error = "none"
  /\ exitCode = "none"
  /\ draftsDisk = "complete"
  /\ procs = NoProcs
  /\ runDirs = NoRunDirs
  /\ graphSteps = 0
  /\ stepCount = 0
  /\ lookup = NoLookup
  /\ runId = 1
  /\ contactedJson = <<>>
  /\ companiesJson = <<>>
  /\ contactsFiles = NoContactsFiles
  /\ draftsJson \in UNION {[1..n -> FreshDrafts] : n \in 1..MaxDrafts}
  /\ agentPc = "finished"
  /\ contactedList = {}
  /\ surfaced = {}
  /\ interrupt = NoInterrupt
  /\ brokerPc = "returned"
  /\ pendingCompanies = <<>>
  /\ lastApprovedCompanies = <<>>
  /\ result = "success"
  /\ wpc = NoWorkers
  /\ wsnap = NoSnapshots
  /\ wreason = NoReasons
  /\ ppc = NoPersonWorkers
  /\ psnap = NoPersonSnapshots
  /\ hist = HistInit
  /\ sendLog = SendLogInit

\* The send command: confirmed and with credentials, for every answer of the
\* transport to the messages; declined at the confirmation; or without the
\* Gmail credentials (the transport is not reached in the last two).
NextSend ==
  \/ \E delivers \in [1..Len(draftsJson) -> BOOLEAN] :
       sendPendingQueue(TRUE, TRUE, delivers)
  \/ sendPendingQueue(FALSE, TRUE, [k \in 1..Len(draftsJson) |-> TRUE])
  \/ sendPendingQueue(TRUE, FALSE, [k \in 1..Len(draftsJson) |-> TRUE])

SpecSend == InitSend /\ [][NextSend]_vars

\* ------------------------------------------------------------------------
\* The send command when the process dies in the rewrite of drafts.json
\* (line 617): writeFile opens the file with flag "w", which truncates it,
\* and then writes the text; what the file holds afterwards depends on where
\* the process stopped.
\* ------------------------------------------------------------------------
CrashOutcomes == {"empty", "partial", "complete"}

\* writeFile(path, text) interrupted: nothing written after the truncation,
\* a prefix of the text, or the whole text.
WriteFileInterrupted(left) == left

\* sendPendingQueue reaches the rewrite of drafts.json (lines 603-617).
SendPendingWrites(confirmed, credentials, delivers) ==
  LET pending == PendingDrafts(draftsJson)
      messages == BuildMessages(draftsJson, pending)
      results == sendEmails(messages, delivers)
  IN  /\ Len(draftsJson) > 0 /\ Len(pending) > 0 /\ Len(messages) > 0
      /\ confirmed /\ credentials
      /\ ~UpdateThrows(draftsJson, pending, results)

sendPendingQueueCrash(delivers, left) ==
  /\ sendLog.n < MaxSends
  /\ draftsDisk = "complete"
  /\ SendPendingWrites(TRUE, TRUE, delivers)
  /\ SendPendingEffect(TRUE, TRUE, delivers)
  /\ draftsDisk' = WriteFileInterrupted(left)
  /\ UNCHANGED <<profile, config, runDirs, procs, runId, contactedJson, companiesJson, contactsFiles,
                 agentVars, brokerVars, stepVars, workerVars, hist, lookup>>

\* A later send command on a file that is not JSON text: JSON.parse throws
\* (line 505) before anything is sent or written.
NextSendCrash ==
  \/ draftsDisk = "complete" /\ NextSend
  \/ \E delivers \in [1..Len(draftsJson) -> BOOLEAN] :
       \E left \in CrashOutcomes : sendPendingQueueCrash(delivers, left)

SpecSendCrash == InitSend /\ [][NextSendCrash]_vars

\* ------------------------------------------------------------------------
\* The step limit of the agent graph.  runPipeline passes recursionLimit to
\* agent.stream for the main stream (line 550) and again for every resumed
\* stream (line 502); stepCount runs over all of them and is only logged.
\* Here the agent's work between two interrupts is a number of graph steps,
\* each yielding one stream event; the broker is the one of consumeStream.
\* ------------------------------------------------------------------------
RecursionLimit == 200

RecursionErrorMessage == "Recursion limit of 200 reached"

\* The agent graph takes a step that does not call review_companies.
BudgetGraphStep ==
  /\ Running
  /\ agentPc \in {"stage1", "stage2"}
  /\ graphSteps < RecursionLimit
  /\ stepCount < MaxSteps
  /\ graphSteps' = graphSteps + 1
  /\ stepCount' = stepCount + 1
  /\ hist' = [hist EXCEPT !.outcome = "none", !.resume = NoResume]
  /\ UNCHANGED <<profile, config, runDirs, draftsDisk, procs, runId, fileVars, agentVars, brokerVars, workerVars,
                 sendLog, lookup>>

\* The agent graph takes a step that calls review_companies: the stream
\* yields the interrupt and ends, consumeStream starts a review.
BudgetInterrupt ==
  /\ Running
  /\ agentPc = "stage1"
  /\ graphSteps < RecursionLimit
  /\ stepCount < MaxSteps
  /\ graphSteps' = graphSteps + 1
  /\ stepCount' = stepCount + 1
  /\ interrupt' = [ReviewInterrupt(<<"x.com">>) EXCEPT !.tag = "consumed"]
  /\ pendingCompanies' = extractInterruptCompanies(ReviewInterrupt(<<"x.com">>))
  /\ agentPc' = "interrupted"
  /\ brokerPc' = "prompt"
  /\ hist' = [hist EXCEPT !.unanswered = @ + 1, !.prompts = 0,
                          !.outcome = "none", !.resume = NoResume,
                          !.outstanding = IF brokerPc = "resume" THEN @ - 1 ELSE @]
  /\ UNCHANGED <<exitCode, profile, config, runDirs, draftsDisk, procs, runId, fileVars, contactedList, surfaced,
                 lastApprovedCompanies, result, stats, error, workerVars, sendLog,
                 lookup>>

\* consumeStream, lines 473-505: the decision is sent with a new call of
\* agent.stream, which gets recursionLimit steps of its own.
BudgetResume(outcome) ==
  /\ brokerPc = "prompt"
  /\ LET decision == promptUserForReview(outcome)
     IN  /\ lastApprovedCompanies' =
              IF decision.approved THEN pendingCompanies ELSE lastApprovedCompanies
         /\ hist' = [hist EXCEPT
                       !.outcome = outcome,
                       !.resume = HitlResponse(decision),
                       !.prompts = @ + 1,
                       !.unanswered = @ - 1,
                       !.outstanding = @ + 1]
  /\ pendingCompanies' = <<>>
  /\ brokerPc' = "resume"
  /\ agentPc' = Stage15AfterDecision(HitlResponse(promptUserForReview(outcome)).type = "approve")
  /\ graphSteps' = 0
  /\ UNCHANGED <<exitCode, profile, config, runDirs, draftsDisk, procs, runId, fileVars, contactedList, surfaced, interrupt,
                 result, stats, error, stepCount, workerVars, sendLog, lookup>>

\* The graph needs a step beyond the limit of the current stream call: the
\* stream throws, the catch of runPipeline returns success=false.
BudgetLimitReached ==
  /\ Running
  /\ agentPc \in {"stage1", "stage2"}
  /\ graphSteps = RecursionLimit
  /\ LET caught == CatchResult(RecursionErrorMessage)
     IN  /\ result' = caught.success
         /\ stats' = caught.stats
         /\ error' = caught.error
  /\ brokerPc' = "returned"
  /\ hist' = [hist EXCEPT !.thrown = RecursionErrorMessage,
                          !.outstanding = IF brokerPc = "resume" THEN @ - 1 ELSE @]
  /\ UNCHANGED <<exitCode, profile, config, runDirs, draftsDisk, procs, runId, fileVars, agentVars, pendingCompanies,
                 lastApprovedCompanies, stepVars, workerVars, sendLog, lookup>>

\* The graph ends after Stage 3; runPipeline returns success.
BudgetStreamEnd ==
  /\ Running
  /\ agentPc = "stage2"
  /\ brokerPc' = "returned"
  /\ result' = "success"
  /\ stats' = gatherPipelineStats(companiesJson, draftsJson)
  /\ agentPc' = "finished"
  /\ hist' = [hist EXCEPT !.outcome = "none", !.resume = NoResume,
                          !.outstanding = IF brokerPc = "resume" THEN @ - 1 ELSE @]
  /\ UNCHANGED <<exitCode, profile, config, runDirs, draftsDisk, procs, runId, fileVars, contactedList, surfaced, interrupt,
                 pendingCompanies, lastApprovedCompanies, error, stepVars,
                 workerVars, sendLog, lookup>>

InitBudget ==
  /\ profile \in Profiles
  /\ config \in {cfg \in Configs : cfg.hunterKey /\ cfg.tavilyKey /\ cfg.profileOk}
  /\ stats = ZeroStats
  /\ error = "none"
  /\ exitCode = "none"
  /\ draftsDisk = "complete"
  /\ procs = NoProcs
  /\ runDirs = NoRunDirs
  /\ graphSteps = 0
  /\ stepCount = 0
  /\ lookup = NoLookup
  /\ runId = 1
  /\ contactedJson = <<>>
  /\ companiesJson = <<>>
  /\ contactsFiles = NoContactsFiles
  /\ draftsJson = <<>>
  /\ agentPc = "stage1"
  /\ contactedList = {}
  /\ surfaced = {}
  /\ interrupt = NoInterrupt
  /\ brokerPc = "main"
  /\ pendingCompanies = <<>>
  /\ lastApprovedCompanies = <<>>
  /\ result = "none"
  /\ wpc = NoWorkers
  /\ wsnap = NoSnapshots
  /\ wreason = NoReasons
  /\ ppc = NoPersonWorkers
  /\ psnap = NoPersonSnapshots
  /\ hist = HistInit
  /\ sendLog = SendLogInit

NextBudget ==
  \/ BudgetGraphStep
  \/ BudgetInterrupt
  \/ \E outcome \in PromptOutcomes : BudgetResume(outcome)
  \/ BudgetLimitReached
  \/ BudgetStreamEnd

SpecBudget == InitBudget /\ [][NextBudget]_vars

\* ------------------------------------------------------------------------
\* One people_lookup tool, built for a contacts-per-company setting, called
\* once with an API answer of lookup.emails e-mail addresses.
\* ------------------------------------------------------------------------
ContactsSettings == (0 - MaxSetting)..MaxSetting

ApiEmails(n) == [i \in 1..n |-> "ann"]

PeopleLookupCall(responseOk) ==
  /\ ~lookup.called
  /\ LET limit == HunterLimit(buildTools(lookup))
         r == HunterDomainSearch(responseOk, ApiEmails(lookup.emails), limit)
     IN  lookup' = [lookup EXCEPT !.called = TRUE, !.limit = limit,
                                  !.kind = r.kind, !.success = r.success,
                                  !.people = Len(r.people)]
  /\ UNCHANGED <<profile, config, runDirs, draftsDisk, procs, runId, fileVars, agentVars, brokerVars, stepVars,
                 workerVars, hist, sendLog>>

InitLookup ==
  /\ profile \in Profiles
  /\ config \in {cfg \in Configs : cfg.hunterKey /\ cfg.tavilyKey /\ cfg.profileOk}
  /\ stats = ZeroStats
  /\ error = "none"
  /\ exitCode = "none"
  /\ draftsDisk = "complete"
  /\ procs = NoProcs
  /\ runDirs = NoRunDirs
  /\ graphSteps = 0
  /\ stepCount = 0
  /\ lookup \in {[NoLookup EXCEPT !.set = st, !.c = c, !.emails = n] :
                   st \in BOOLEAN, c \in ContactsSettings, n \in 0..MaxApiEmails}
  /\ lookup.set \/ lookup.c = 0
  /\ runId = 0
  /\ contactedJson = <<>>
  /\ companiesJson = <<>>
  /\ contactsFiles = NoContactsFiles
  /\ draftsJson = <<>>
  /\ agentPc = "idle"
  /\ contactedList = {}
  /\ surfaced = {}
  /\ interrupt = NoInterrupt
  /\ brokerPc = "idle"
  /\ pendingCompanies = <<>>
  /\ lastApprovedCompanies = <<>>
  /\ result = "none"
  /\ wpc = NoWorkers
  /\ wsnap = NoSnapshots
  /\ wreason = NoReasons
  /\ ppc = NoPersonWorkers
  /\ psnap = NoPersonSnapshots
  /\ hist = HistInit
  /\ sendLog = SendLogInit

NextLookup == \E responseOk \in BOOLEAN : PeopleLookupCall(responseOk)

SpecLookup == InitLookup /\ [][NextLookup]_vars

\* ------------------------------------------------------------------------
\* The registry under run commands that overlap: contacted.json belongs to
\* the workspace, each run has its own directory, and nothing keeps a second
\* run from starting while the first is at work.  Of each run the steps that
\* read or write the registry are kept: Stage 0, Stage 1, the outcome of the
\* processing of each approved company, Stage 3.
\* ------------------------------------------------------------------------
RegStart(p) ==
  /\ procs[p].pc = "idle"
  /\ procs' = [procs EXCEPT ![p].pc = "stage0"]
  /\ UNCHANGED <<profile, config, runDirs, draftsDisk, runId, fileVars, agentVars, brokerVars,
                 stepVars, workerVars, hist, sendLog, lookup>>

RegStage0(p) ==
  /\ procs[p].pc = "stage0"
  /\ procs' = [procs EXCEPT ![p].pc = "stage1",
                            ![p].contactedList = Stage0Domains(contactedJson)]
  /\ UNCHANGED <<profile, config, runDirs, draftsDisk, runId, fileVars, agentVars, brokerVars,
                 stepVars, workerVars, hist, sendLog, lookup>>

RegDiscover(p, found) ==
  /\ procs[p].pc = "stage1"
  /\ procs' = [procs EXCEPT
                 ![p].pc = "processing",
                 ![p].companies =
                    MapSeq(DiscoverCompanies(found, procs[p].contactedList,
                                             profile.maxOutreach),
                           PendingEntry)]
  /\ UNCHANGED <<profile, config, runDirs, draftsDisk, runId, fileVars, agentVars, brokerVars,
                 stepVars, workerVars, hist, sendLog, lookup>>

\* The approved companies end SUCCESS (contacts found, drafts written) or
\* FAILED.
RegProcess(p, succeeded) ==
  /\ procs[p].pc = "processing"
  /\ procs' = [procs EXCEPT
                 ![p].pc = "stage3",
                 ![p].companies =
                    MapSeq(procs[p].companies,
                           LAMBDA c : IF c.domain \in succeeded
                                      THEN [c EXCEPT !.status = "SUCCESS"]
                                      ELSE [c EXCEPT !.status = "FAILED"])]
  /\ UNCHANGED <<profile, config, runDirs, draftsDisk, runId, fileVars, agentVars, brokerVars,
                 stepVars, workerVars, hist, sendLog, lookup>>

RegStage3(p) ==
  /\ procs[p].pc = "stage3"
  /\ contactedJson' = Stage3Update(contactedJson, procs[p].companies, p)
  /\ procs' = [procs EXCEPT ![p].pc = "done"]
  /\ UNCHANGED <<profile, config, runDirs, draftsDisk, runId, companiesJson, contactsFiles,
                 draftsJson, agentVars, brokerVars, stepVars, workerVars, hist,
                 sendLog, lookup>>

InitRegistry ==
  /\ profile \in Profiles
  /\ config \in {cfg \in Configs : cfg.hunterKey /\ cfg.tavilyKey /\ cfg.profileOk}
  /\ stats = ZeroStats
  /\ error = "none"
  /\ exitCode = "none"
  /\ draftsDisk = "complete"
  /\ procs = NoProcs
  /\ runDirs = NoRunDirs
  /\ graphSteps = 0
  /\ stepCount = 0
  /\ lookup = NoLookup
  /\ runId = 0
  /\ contactedJson \in {<<>>, <<ContactedEntry("x.com", 0)>>}
  /\ companiesJson = <<>>
  /\ contactsFiles = NoContactsFiles
  /\ draftsJson = <<>>
  /\ agentPc = "idle"
  /\ contactedList = {}
  /\ surfaced = {}
  /\ interrupt = NoInterrupt
  /\ brokerPc = "idle"
  /\ pendingCompanies = <<>>
  /\ lastApprovedCompanies = <<>>
  /\ result = "none"
  /\ wpc = NoWorkers
  /\ wsnap = NoSnapshots
  /\ wreason = NoReasons
  /\ ppc = NoPersonWorkers
  /\ psnap = NoPersonSnapshots
  /\ hist = HistInit
  /\ sendLog = SendLogInit

NextRegistry ==
  \/ \E p \in RunProcs : RegStart(p)
  \/ \E p \in RunProcs : RegStage0(p)
  \/ \E p \in RunProcs : \E found \in SUBSET Domains : RegDiscover(p, found)
  \/ \E p \in RunProcs : \E succeeded \in SUBSET Domains : RegProcess(p, succeeded)
  \/ \E p \in RunProcs : RegStage3(p)

SpecRegistry == InitRegistry /\ [][NextRegistry]_vars

\* ------------------------------------------------------------------------
\* generateRunId (cli/index.ts 426-445).  A directory run<k> is kept by its
\* number k: padStart(4) writes k with four digits up to 9999 and with all
\* its digits above, so different numbers are different names, and the
\* pattern /^run(\d{4})$/ matches the names of the numbers up to 9999 only.
\* ------------------------------------------------------------------------
MatchesRunPattern(k) == k <= FourDigitMax

generateRunId(dirs) ==
  LET matching == {k \in dirs : MatchesRunPattern(k)}
      maxNum == IF matching = {} THEN 0
                ELSE CHOOSE m \in matching : \A k \in matching : k <= m
  IN  maxNum + 1

\* The run command without --run-id: generate the id, create the directory
\* (mkdir with recursive: true accepts a directory that exists).
NewRunDir ==
  /\ runDirs.n < MaxNewRuns
  /\ LET id == generateRunId(runDirs.dirs)
     IN  runDirs' = [dirs |-> runDirs.dirs \cup {id}, n |-> runDirs.n + 1,
                     last |-> id, existed |-> id \in runDirs.dirs]
  /\ UNCHANGED <<profile, config, draftsDisk, procs, runId, fileVars, agentVars,
                 brokerVars, stepVars, workerVars, hist, sendLog, lookup>>

\* The user removes a run directory.
RemoveRunDir(k) ==
  /\ k \in runDirs.dirs
  /\ runDirs' = [runDirs EXCEPT !.dirs = @ \ {k}]
  /\ UNCHANGED <<profile, config, draftsDisk, procs, runId, fileVars, agentVars,
                 brokerVars, stepVars, workerVars, hist, sendLog, lookup>>

\* The run directories the workspace starts with.
FirstRunDirs == {1, FourDigitMax - 1, FourDigitMax}

InitRunId ==
  /\ profile \in Profiles
  /\ config \in {cfg \in Configs : cfg.hunterKey /\ cfg.tavilyKey /\ cfg.profileOk}
  /\ stats = ZeroStats
  /\ error = "none"
  /\ exitCode = "none"
  /\ draftsDisk = "complete"
  /\ procs = NoProcs
  /\ runDirs \in {[NoRunDirs EXCEPT !.dirs = ds] : ds \in SUBSET FirstRunDirs}
  /\ graphSteps = 0
  /\ stepCount = 0
  /\ lookup = NoLookup
  /\ runId = 0
  /\ contactedJson = <<>>
  /\ companiesJson = <<>>
  /\ contactsFiles = NoContactsFiles
  /\ draftsJson = <<>>
  /\ agentPc = "idle"
  /\ contactedList = {}
  /\ surfaced = {}
  /\ interrupt = NoInterrupt
  /\ brokerPc = "idle"
  /\ pendingCompanies = <<>>
  /\ lastApprovedCompanies = <<>>
  /\ result = "none"
  /\ wpc = NoWorkers
  /\ wsnap = NoSnapshots
  /\ wreason = NoReasons
  /\ ppc = NoPersonWorkers
  /\ psnap = NoPersonSnapshots
  /\ hist = HistInit
  /\ sendLog = SendLogInit

NextRunId ==
  \/ NewRunDir
  \/ \E k \in runDirs.dirs : RemoveRunDir(k)

SpecRunId == InitRunId /\ [][NextRunId]_vars

\* ------------------------------------------------------------------------
\* Properties
\* ------------------------------------------------------------------------
FileDomains(file) == {file[i].domain : i \in 1..Len(file)}

HasEntry(file, d) == d \in FileDomains(file)

EntryOf(file, d) == file[CHOOSE i \in 1..Len(file) : file[i].domain = d]

Dispatched == {d \in Domains : wpc[d] # "none"}

\* What a finished company-flow worker has written for its company.
WorkerResult(d) ==
  IF hist.lookups[d] = "found" THEN "SUCCESS"
  ELSE IF wreason[d] \in {"none", "stop"} THEN "PENDING"
  ELSE "FAILED"

\* C1: when the company workers of a run have all finished, companies.json
\* holds one record per worker and every worker's result is in it, whatever
\* the interleaving of their reads and writes.
C1_NoResultLost ==
  (agentPc = "processing" /\ AllTasksComplete) =>
    /\ Len(companiesJson) = Cardinality(Dispatched)
    /\ \A d \in Dispatched :
         /\ HasEntry(companiesJson, d)
         /\ EntryOf(companiesJson, d).status = WorkerResult(d)

\* C2: company workers are dispatched at most once per run, exactly for the
\* companies of the list approved last, and never for a company that was
\* only in a rejected proposal.
C2_DispatchOnlyApproved ==
  \A d \in Domains :
    /\ hist.dispatched[d] <= 1
    /\ (wpc[d] # "none") = (hist.dispatched[d] = 1)
    /\ hist.dispatched[d] = 1 =>
         /\ d \in Range(lastApprovedCompanies)
         /\ agentPc \in {"processing", "finished"}
    /\ agentPc \in {"processing", "finished"} =>
         Dispatched = Range(lastApprovedCompanies)
    /\ d \in hist.rejected \ Range(lastApprovedCompanies) => hist.dispatched[d] = 0

C2_Witness ==
  /\ agentPc = "processing"
  /\ Dispatched # {}
  /\ hist.rejected \ Range(lastApprovedCompanies) # {}

\* C3: every interrupt is prompted for once and answered by exactly one
\* resume before the next interrupt is produced; no two resumes are
\* outstanding; no interrupt is left unanswered when the run returns.
C3_EveryInterruptAnswered ==
  /\ hist.unanswered \in {0, 1}
  /\ hist.prompts <= 1
  /\ hist.outstanding \in {0, 1}
  /\ hist.unanswered = 1 => hist.outstanding = 0
  /\ result = "success" => hist.unanswered = 0

\* C4: a company whose lookup reported zero contacts ends the run FAILED with
\* reason "No contacts found", and no draft references it.
C4_NoContactsEndsFailed ==
  result = "success" =>
    \A d \in Dispatched :
      hist.lookups[d] = "zero" =>
        /\ EntryOf(companiesJson, d).status = "FAILED"
        /\ EntryOf(companiesJson, d).failureReason = "No contacts found"
        /\ \A k \in 1..Len(draftsJson) : draftsJson[k].company # d

\* C5: a list shown to the human has no company of the registry loaded at
\* Stage 0; for registry {x.com} and search results x.com, y.com, z.com with
\* a maximum of two companies the list shown is y.com, z.com.
C5_ShownListExcludesContacted ==
  brokerPc = "prompt" =>
    /\ Range(pendingCompanies) \cap contactedList = {}
    /\ Range(pendingCompanies) \cap FileDomains(contactedJson) = {}
    /\ (contactedList = {"x.com"} /\ surfaced = Domains /\ profile.maxOutreach = 2)
         => pendingCompanies = <<"y.com", "z.com">>

C5_Witness ==
  /\ brokerPc = "prompt"
  /\ contactedList = {"x.com"}
  /\ surfaced = Domains
  /\ pendingCompanies = <<"y.com", "z.com">>

\* The domains that earlier runs added to contacted.json.
AddedByEarlierRuns ==
  {contactedJson[i].domain :
     i \in {j \in 1..Len(contactedJson) :
              contactedJson[j].runId >= 1 /\ contactedJson[j].runId < runId}}

\* C6: a domain that an earlier run added to contacted.json is neither
\* proposed for review nor given a worker in a later run.
C6_ContactedNeverReproposed ==
  \A d \in AddedByEarlierRuns :
    /\ d \notin Range(interrupt.companies)
    /\ d \notin Range(pendingCompanies)
    /\ d \notin Range(lastApprovedCompanies)
    /\ ~HasEntry(companiesJson, d)
    /\ wpc[d] = "none"
    /\ hist.dispatched[d] = 0

C6_Witness ==
  /\ brokerPc = "prompt"
  /\ surfaced \cap AddedByEarlierRuns # {}
  /\ Range(pendingCompanies) \cap AddedByEarlierRuns = {}

\* The domains this run has added to contacted.json.
AddedByThisRun ==
  {contactedJson[i].domain :
     i \in {j \in 1..Len(contactedJson) :
              runId >= 1 /\ contactedJson[j].runId = runId}}

\* C7: the domains a run adds to contacted.json are those whose final status
\* in the run's companies.json is SUCCESS; FAILED and PENDING ones are not
\* added.
C7_OnlySuccessContacted ==
  /\ \A d \in AddedByThisRun :
       /\ HasEntry(companiesJson, d)
       /\ EntryOf(companiesJson, d).status = "SUCCESS"
  /\ \A i \in 1..Len(companiesJson) :
       companiesJson[i].status # "SUCCESS" =>
         companiesJson[i].domain \notin AddedByThisRun

C7_Witness ==
  /\ agentPc = "finished"
  /\ AddedByThisRun # {}
  /\ \E i \in 1..Len(companiesJson) :
       /\ companiesJson[i].status = "FAILED"
       /\ companiesJson[i].domain \notin FileDomains(contactedJson)

\* Work done for an approved list: workers, contacts files, drafts.
NoWorkDone ==
  /\ wpc = NoWorkers
  /\ ppc = NoPersonWorkers
  /\ contactsFiles = NoContactsFiles
  /\ draftsJson = <<>>
  /\ AddedByThisRun = {}

\* C8 as stated: no worker before the decision, and after a rejection nothing
\* of the rejected proposal is left to undo.
C8_RejectionLeavesNothing ==
  /\ ~NoWorkDone => (hist.unanswered = 0 /\ brokerPc # "prompt")
  /\ (agentPc = "stage1" /\ hist.rejected # {}) =>
       /\ NoWorkDone
       /\ FileDomains(companiesJson) \cap hist.rejected = {}

\* C8 as amended: no worker is dispatched for a list before the decision on
\* it is delivered, and only for a list that was approved; after a rejection
\* no worker, contacts file, draft or registry entry exists, and the one
\* trace of the rejected proposal is its PENDING records in companies.json.
C8_NoWorkBeforeApproval ==
  /\ ~NoWorkDone =>
       /\ hist.unanswered = 0
       /\ brokerPc # "prompt"
       /\ Dispatched = Range(lastApprovedCompanies)
       /\ Dispatched = ApprovedCompanies
  /\ (agentPc = "stage1" /\ hist.rejected # {}) =>
       /\ NoWorkDone
       /\ \A i \in 1..Len(companiesJson) : companiesJson[i].status = "PENDING"

C8_Witness ==
  /\ agentPc = "stage1"
  /\ hist.rejected # {}
  /\ FileDomains(companiesJson) \cap hist.rejected # {}
  /\ NoWorkDone

\* C9: an error of one worker's contact lookup is recorded as that company's
\* FAILED result with the error text, the siblings reach their own results,
\* and the run does not fail.
C9_LookupErrorIsolated ==
  \A d \in Dispatched :
    hist.lookups[d] = "error" =>
      /\ result # "failed"
      /\ result = "success" =>
           /\ EntryOf(companiesJson, d).status = "FAILED"
           /\ EntryOf(companiesJson, d).failureReason = "Hunter domain search failed"
           /\ \A e \in Dispatched \ {d} :
                EntryOf(companiesJson, e).status \in {"SUCCESS", "FAILED"}

\* C10: a draft that is sent or failed is never changed again by a send
\* invocation, and the only changes of a status are draft to sent and draft
\* to failed.
C10_TerminalDraftsFrozen ==
  [][/\ Len(draftsJson') = Len(draftsJson)
     /\ \A k \in 1..Len(draftsJson) :
          /\ draftsJson[k].status # "draft" => draftsJson'[k] = draftsJson[k]
          /\ draftsJson'[k].status # draftsJson[k].status =>
               /\ draftsJson[k].status = "draft"
               /\ draftsJson'[k].status \in {"sent", "failed"}]_vars

C10_Witness ==
  /\ \E k \in 1..Len(draftsJson) :
       draftsJson[k].status = "sent" /\ draftsJson[k].sentAt < sendLog.n
  /\ \E k \in 1..Len(draftsJson) : draftsJson[k].status = "failed"
  /\ sendLog.n >= 2

\* C11: a send invocation on a drafts file in which no entry has status
\* draft hands no message to the transport and leaves drafts.json as it is;
\* the file then still has no draft entry, so the next invocation does the
\* same.
C11_NothingPendingNothingSent ==
  [][((\A k \in 1..Len(draftsJson) : draftsJson[k].status # "draft")
        /\ sendLog'.n # sendLog.n) =>
       /\ draftsJson' = draftsJson
       /\ sendLog'.delivered = sendLog.delivered
       /\ sendLog'.last.pending = 0
       /\ sendLog'.last.messages = <<>>
       /\ sendLog'.last.results = <<>>]_vars

\* The first invocation sent every draft; the second and the third found
\* nothing pending.
C11_Witness ==
  /\ sendLog.n = 3
  /\ sendLog.last.pending = 0
  /\ Len(draftsJson) >= 2
  /\ \A k \in 1..Len(draftsJson) :
       draftsJson[k].status = "sent" /\ draftsJson[k].sentAt = 1

C13_OneResultPerMessage ==
  LET messages == sendLog.last.messages
      results == sendLog.last.results
  IN  /\ Len(results) = Len(messages)
      /\ \A i \in 1..Len(results) :
           /\ results[i].email = messages[i].to
           /\ results[i].success => results[i].messageId = messages[i].src
           /\ ~results[i].success =>
                \A j \in (i + 1)..Len(messages) : j \in DOMAIN results

C13_Witness ==
  /\ Len(sendLog.last.results) >= 2
  /\ ~sendLog.last.results[1].success
  /\ sendLog.last.results[2].success

\* C14: when the human aborts the selection prompt, the broker records the
\* shown list as approved and resumes the agent with an approve decision,
\* and the agent goes on to Stage 2: the same as after an explicit approval.
ResumedAsApproved ==
  /\ hist.resume = [type |-> "approve", message |-> "none"]
  /\ lastApprovedCompanies = interrupt.companies
  /\ pendingCompanies = <<>>
  /\ brokerPc = "resume"
  /\ agentPc = "stage2"
  /\ hist.unanswered = 0

C14_AbortIsApproval ==
  hist.outcome \in {"cancel", "approve"} => ResumedAsApproved

C14_Witness ==
  /\ hist.outcome = "cancel"
  /\ hist.resume.type = "approve"
  /\ Len(lastApprovedCompanies) = 2
  /\ hist.rejected # {}

\* The counts of the run's files as they are on disk now.
SuccessOnDisk == {i \in 1..Len(companiesJson) : companiesJson[i].status = "SUCCESS"}

StatsMatchDisk ==
  /\ stats.companiesSelected = Len(companiesJson)
  /\ stats.companiesResearched = Cardinality(SuccessOnDisk)
  /\ stats.draftsGenerated = Len(draftsJson)

\* C15: when runPipeline has returned success, its statistics are the counts
\* of the files on disk: companiesSelected the records of companies.json,
\* companiesResearched those with status SUCCESS, draftsGenerated the records
\* of drafts.json (0 when there is none).
C15_SuccessStatsFromDisk ==
  result = "success" => StatsMatchDisk

C15_Witness ==
  /\ result = "success"
  /\ stats.companiesSelected = 2
  /\ stats.companiesResearched = 1
  /\ stats.draftsGenerated = 1
  /\ \E i \in 1..Len(companiesJson) : companiesJson[i].status = "FAILED"

\* C16: when runPipeline has returned failure after companies and drafts
\* were written, the statistics it reports are still the counts of the files
\* on disk.
C16_FailedStatsFromDisk ==
  result = "failed" => StatsMatchDisk

\* C17: an error raised into the stream makes runPipeline return failure
\* with the message of that error; the step that returns it changes no file,
\* and no file of the run changes afterwards.
C17_FailureKeepsFiles ==
  [][/\ hist.thrown # "none" => (result = "failed" /\ error = hist.thrown)
     /\ (result' = "failed" /\ result # "failed") =>
          /\ fileVars' = fileVars
          /\ hist'.thrown # "none"
          /\ error' = hist'.thrown
     /\ (result = "failed" /\ runId' = runId) => fileVars' = fileVars]_vars

C17_Witness ==
  /\ result = "failed"
  /\ error = "Hunter domain search failed"
  /\ Len(draftsJson) >= 1
  /\ \E i \in 1..Len(companiesJson) : companiesJson[i].status = "PENDING"

\* C18: the steps of a run, counted over the main stream and every resumed
\* stream, never exceed the step limit, and a run that reaches it fails.
C18_GlobalStepBudget ==
  /\ stepCount <= RecursionLimit
  /\ stepCount = RecursionLimit => result \in {"none", "failed"}

\* C19: with a missing lookup or search key, or an invalid profile, the run
\* fails before Stage 0: the agent never starts, no discovery is saved, no
\* review prompt is shown and no company worker is dispatched.
ConfigIncomplete == ~config.hunterKey \/ ~config.tavilyKey \/ ~config.profileOk

C19_ConfigErrorBeforeStage0 ==
  ConfigIncomplete =>
    /\ agentPc = "idle"
    /\ brokerPc \in {"idle", "config_error"}
    /\ hist.unanswered = 0 /\ hist.prompts = 0
    /\ Dispatched = {}

\* C20: the lookup's limit is the contacts-per-company setting clamped to
\* 1..100, 10 when there is no setting, and a lookup that reports success
\* returns at least one and at most limit people.
C20_LimitClamped ==
  lookup.called =>
    /\ ~lookup.set => lookup.limit = 10
    /\ (lookup.set /\ lookup.c < 1) => lookup.limit = 1
    /\ (lookup.set /\ lookup.c > 100) => lookup.limit = 100
    /\ (lookup.set /\ lookup.c >= 1 /\ lookup.c <= 100) => lookup.limit = lookup.c
    /\ lookup.success => (lookup.people >= 1 /\ lookup.people <= lookup.limit)
    /\ lookup.success =
         (lookup.kind = "return" /\ lookup.emails >= 1)

C20_Witness ==
  /\ lookup.called
  /\ lookup.set /\ lookup.c = 101
  /\ lookup.emails = 102
  /\ lookup.success
  /\ lookup.people = 100

\* C21: web_search never throws: its answer is a text, and for a missing API
\* key, a missing package, an empty result and a failing search call the text
\* says so.
C21_WebSearchNeverThrows ==
  /\ hist.search.kind \in {"none", "return"}
  /\ (hist.search.kind = "return" /\ ~config.tavilyKey) =>
       hist.search.text = "Error: TAVILY_API_KEY environment variable not set"
  /\ hist.search.text \in
       {"none", "results", "No results found for this search query.",
        "Error: TAVILY_API_KEY environment variable not set",
        "Error: @langchain/tavily package not installed",
        "Error performing web search"}

C21_Witness ==
  /\ hist.search.text = "Error performing web search"
  /\ agentPc = "review"
  /\ companiesJson = <<>>
  /\ hist.rejected # {}

\* C22: a run that did not succeed makes the process exit with code 1 and
\* never enters the send phase, also when --send was given: the send phase
\* is entered, and emails are sent, only after a pipeline result of success.
C22_FailedRunExitsOneNoSend ==
  /\ (result = "failed" /\ brokerPc = "exited") => exitCode = "1"
  /\ result = "failed" =>
       /\ brokerPc # "sending"
       /\ sendLog.n = 0
       /\ \A k \in 1..Len(draftsJson) : draftsJson[k].status = "draft"
  /\ (brokerPc = "sending" \/ sendLog.n > 0) => result = "success"
  /\ brokerPc = "config_error" => exitCode = "1" /\ sendLog.n = 0

\* C22 witness: a failed run with --send given and drafts on disk has
\* exited with code 1.
C22_Witness ==
  /\ result = "failed"
  /\ hist.sendOption = "yes"
  /\ brokerPc = "exited"
  /\ exitCode = "1"
  /\ Len(draftsJson) > 0

\* The position of a stage in the order of a run: load registry, discovery,
\* human review, company processing, registry update.
StageRank(pc) ==
  CASE pc = "idle" -> 0
    [] pc = "stage0" -> 1
    [] pc = "stage1" -> 2
    [] pc \in {"review", "interrupted"} -> 3
    [] pc \in {"stage2", "processing"} -> 4
    [] pc = "finished" -> 5

\* C23: the stages of a run are entered in the order load registry,
\* discovery, human review, company processing, registry update (a rejected
\* review goes back to discovery, nothing else goes back), and the registry
\* is updated only in the processing stage when every dispatched company
\* worker and every personalization worker has terminated.
C23_StagesInOrder ==
  [][/\ agentPc' # agentPc =>
          \/ agentPc' = "stage0" /\ runId' = runId + 1
          \/ StageRank(agentPc') = StageRank(agentPc) + 1
          \/ StageRank(agentPc') = StageRank(agentPc)
          \/ /\ agentPc = "interrupted"
             /\ agentPc' = "stage1"
             /\ hist'.resume.type = "reject"
     /\ contactedJson' # contactedJson =>
          /\ agentPc = "processing" /\ agentPc' = "finished"
          /\ \A d \in Domains :
               /\ wpc[d] \in {"none", "done"}
               /\ \A i \in 1..MaxEmails : ppc[d][i] \in {"none", "done"}
    ]_vars

\* C23 witness: a run that went through a rejected review, dispatched two
\* company workers and then added to the registry.
C23_Witness ==
  /\ agentPc = "finished"
  /\ hist.rejected # {}
  /\ Cardinality({d \in Domains : hist.dispatched[d] > 0}) = 2
  /\ \E k \in 1..Len(contactedJson) : contactedJson[k].runId = runId

\* The personalization workers that have written their draft.
DoneWriters ==
  {w \in Domains \X (1..MaxEmails) : ppc[w[1]][w[2]] = "done"}

\* C24: when the personalization workers have all written, drafts.json
\* holds one draft per worker, whatever the interleaving of their reads and
\* writes.
C24_AllDraftsKept ==
  (\A d \in Domains : \A i \in 1..MaxEmails : ppc[d][i] \in {"none", "done"}) =>
    Len(draftsJson) = Cardinality(DoneWriters)

\* The drafts of drafts.json that reference a company.
DraftsOf(d) == {j \in 1..Len(draftsJson) : draftsJson[j].company = d}

\* C25: a company record with status SUCCESS has all its personalization
\* workers terminated, and its draftsGenerated is the number of drafts of
\* that company in drafts.json and at most its contactsFound.
C25_SuccessCountsDrafts ==
  \A k \in 1..Len(companiesJson) :
    companiesJson[k].status = "SUCCESS" =>
      /\ \A i \in 1..MaxEmails : ppc[companiesJson[k].domain][i] \in {"none", "done"}
      /\ companiesJson[k].draftsGenerated = Cardinality(DraftsOf(companiesJson[k].domain))
      /\ companiesJson[k].draftsGenerated <= companiesJson[k].contactsFound

\* C26: a run reports success only when no interrupt is left unanswered:
\* the agent is not paused at an interrupt, whatever the interrupt's shape.
C26_SuccessLeavesNoInterrupt ==
  result = "success" => (hist.unanswered = 0 /\ agentPc # "interrupted")

\* C27: a run whose stream delivered an interrupt with a malformed payload
\* ends with success = false.
C27_MalformedInterruptFails ==
  (interrupt = [MalformedInterrupt EXCEPT !.tag = "consumed"] /\ result # "none") =>
    result = "failed"

\* C28: whenever the process stops in a rewrite of drafts.json, the file
\* holds the complete previous or the complete new contents.
C28_RewriteIsAllOrNothing == draftsDisk = "complete"

\* C29: while the companies of a run are processed, the status of a record
\* of companies.json changes only from PENDING to SUCCESS or from PENDING to
\* FAILED; a SUCCESS or FAILED record keeps its status.
C29_StatusOnlyLeavesPending ==
  [][(agentPc = "processing" /\ agentPc' = "processing" /\ runId' = runId) =>
       \A d \in Domains :
         (HasEntry(companiesJson, d) /\ HasEntry(companiesJson', d)
          /\ EntryOf(companiesJson', d).status # EntryOf(companiesJson, d).status) =>
           /\ EntryOf(companiesJson, d).status = "PENDING"
           /\ EntryOf(companiesJson', d).status \in {"SUCCESS", "FAILED"}
    ]_vars

\* No two entries of a registry have the same domain.
DistinctDomains(file) ==
  \A i, j \in 1..Len(file) : i # j => file[i].domain # file[j].domain

\* C30: after the registry update of a run, contacted.json holds no two
\* entries with the same domain.
C30_RegistryDomainsDistinct ==
  (\E p \in RunProcs : procs[p].pc = "done") => DistinctDomains(contactedJson)

\* C31: over the runs of a workspace, one after the other, every entry of
\* contacted.json stays where it is with the same domain, name, contactedAt
\* and runId; a run only appends entries.
C31_RegistryAppendOnly ==
  [][/\ Len(contactedJson') >= Len(contactedJson)
     /\ \A i \in 1..Len(contactedJson) : contactedJson'[i] = contactedJson[i]
    ]_vars

\* C31 witness: the second run has added its entry behind the entry of the
\* first run.
C31_Witness ==
  /\ runId = 2
  /\ agentPc = "finished"
  /\ \E i, j \in 1..Len(contactedJson) :
       /\ i < j
       /\ contactedJson[i].runId = 1
       /\ contactedJson[j].runId = 2

\* C32: no two drafts of a run's drafts.json have the same id.
C32_DraftIdsDistinct ==
  \A i, j \in 1..Len(draftsJson) : i # j => draftsJson[i].id # draftsJson[j].id

\* The contacts persisted under contacts/ for the companies of the run.
RECURSIVE ContactsPersisted(_)
ContactsPersisted(ds) ==
  IF ds = {} THEN 0
  ELSE LET d == CHOOSE x \in ds : TRUE
       IN  Len(contactsFiles[d]) + ContactsPersisted(ds \ {d})

\* C33: the contactsFound a successful run reports is the number of contacts
\* persisted under contacts/, with or without a draft.
C33_ContactsFoundCountsContacts ==
  result = "success" => stats.contactsFound = ContactsPersisted(Domains)

\* C34: over the send invocations on one drafts.json, every draft is
\* delivered to the mail transport at most once, and a draft whose message
\* an invocation has delivered no longer has status draft afterwards.
C34_DeliveredAtMostOnce ==
  \A k \in 1..Len(draftsJson) :
    /\ sendLog.delivered[k] <= 1
    /\ sendLog.delivered[k] > 0 => draftsJson[k].status # "draft"

\* The messages of the last send invocation built from the draft at k.
MessagesOf(log, k) == {i \in 1..Len(log.last.messages) : log.last.messages[i].src = k}

\* C35: after a send invocation that handed messages to the transport, every
\* pending draft carries the outcome of its own message (sent with that
\* message's id, failed with that message's error), and a pending draft that
\* was skipped still has status draft.
C35_OwnOutcomePerDraft ==
  [][(sendLog'.n = sendLog.n + 1 /\ Len(sendLog'.last.messages) > 0) =>
       \A k \in 1..Len(draftsJson) :
         draftsJson[k].status = "draft" =>
           /\ MessagesOf(sendLog', k) = {} => draftsJson'[k].status = "draft"
           /\ \A i \in MessagesOf(sendLog', k) :
                IF sendLog'.last.results[i].success
                THEN /\ draftsJson'[k].status = "sent"
                     /\ draftsJson'[k].messageId = sendLog'.last.results[i].messageId
                ELSE /\ draftsJson'[k].status = "failed"
                     /\ draftsJson'[k].error = sendLog'.last.results[i].error
    ]_vars

\* C36: the broker resumes with a reject decision only after a Revise with
\* feedback entered, and the reject carries that feedback; after every other
\* outcome of the prompt it resumes with approve.
C36_RejectOnlyWithFeedback ==
  /\ hist.resume.type = "reject" =>
       /\ hist.outcome = "revise"
       /\ hist.resume.message = "feedback"
  /\ hist.outcome = "revise" => hist.resume.type = "reject"
  /\ hist.outcome \in {"approve", "cancel", "revise_empty", "revise_cancel"} =>
       hist.resume = [type |-> "approve", message |-> "none"]

\* C36 witness: a Revise whose feedback was left empty has resumed the agent
\* with approve, after an earlier Revise with feedback had rejected a list.
C36_Witness ==
  /\ hist.outcome = "revise_empty"
  /\ hist.resume.type = "approve"
  /\ hist.rejected # {}
  /\ agentPc = "stage2"

\* C37: the id generateRunId returns is not the id of a run directory that
\* exists under runs/.
C37_RunIdIsFresh == ~runDirs.existed

\* C38: when every stream segment is finite and the human approves at some
\* prompt, consumeStream ends and runPipeline returns a result.
C38_RunReturns == (brokerPc = "main") ~> (result # "none")

\* C38 witness: a run has returned success after a rejected proposal and an
\* approved one.
C38_Witness ==
  /\ brokerPc = "returned"
  /\ result = "success"
  /\ hist.rejected # {}
  /\ Len(lastApprovedCompanies) > 0
  /\ agentPc = "finished"

====
